---- MODULE Spec2Model ----
(***************************************************************************)
(* Model of the real-time broadcast subsystem of the crypto tracker        *)
(* backend: backend/app/api/websocket.py (ConnectionManager and            *)
(* websocket_endpoint) and the cache-aside read it polls through,          *)
(* backend/app/services/crypto_service.py (CryptoService.get_all_cryptos). *)
(*                                                                         *)
(* Everything runs on one asyncio event loop, so a step of the model is    *)
(* the code one coroutine runs between two suspensions (awaits).  The      *)
(* awaits of the code are: websocket.accept, websocket.receive_json,       *)
(* websocket.send_json, the HTTP get of the fetcher and asyncio.sleep.     *)
(* asyncio.CancelledError derives from BaseException (Python >= 3.8), so   *)
(* the `except Exception` clauses of the code do not catch it.             *)
(***************************************************************************)
EXTENDS Integers, Sequences, FiniteSets, TLC

\* ------------------------------------------------------------------ bounds
NumSessions == 2
NumClients == 2
NumAssets == 2
MaxIds == 1
NumCallers == 2
MaxReads == 2
MaxNow == 360

\* ------------------------------------------------------- program constants
CACHE_TTL_SECONDS == 300
SLEEP_SECONDS == 10
BACKOFF_SECONDS == 5
HISTORY_RECENT_TTL == 60
HISTORY_TTL == 300
SEARCH_TTL == 600
TRENDING_TTL == 300

Sessions == 1..NumSessions
ClientIds == 1..NumClients
Assets == 1..NumAssets
TaskIds == 1..NumSessions
Callers == 1..NumCallers

VARIABLES
    active_connections,   \* dict client_id -> websocket, as CPython lays it out
    subscriptions,        \* dict crypto_id -> set of client ids
    running,              \* ConnectionManager._running
    price_update_task,    \* ConnectionManager._price_update_task (0 = None)
    task,                 \* the scheduler tasks ever created
    session,              \* the websocket_endpoint coroutines
    cache,                \* CryptoService._cache
    now,                  \* datetime.now(), in seconds
    call                  \* the callers of CryptoService's read methods

vars == <<active_connections, subscriptions, running, price_update_task,
          task, session, cache, now, call>>

\* ------------------------------------------------------------ the dict
\* A CPython dict keeps its entries in insertion order; a deleted entry
\* leaves a hole that an iterator steps over, and a new key is appended.
Tomb == [cid |-> 0, ws |-> 0]

DictKeys(d) == {d[i].cid : i \in 1..Len(d)} \ {0}

DictLen(d) == Cardinality({i \in 1..Len(d) : d[i].cid # 0})

DictIndex(d, k) == CHOOSE i \in 1..Len(d) : d[i].cid = k

DictGet(d, k) == d[DictIndex(d, k)].ws

\* The entries of a dict of the smallest size (8 slots): 5.  Every insert of
\* a new key uses one up, a delete gives none back.
DictUsable == (2 * 8) \div 3

\* The resize of a full dict: the live entries are copied in order and the
\* holes are dropped (with at most two live entries the size stays 8).
Compact(d) == SelectSeq(d, LAMBDA e : e.cid # 0)

DictSet(d, k, v) ==
    IF k \in DictKeys(d)
    THEN [d EXCEPT ![DictIndex(d, k)] = [cid |-> k, ws |-> v]]
    ELSE IF Len(d) < DictUsable THEN Append(d, [cid |-> k, ws |-> v])
    ELSE Append(Compact(d), [cid |-> k, ws |-> v])

\* The websockets registered.
Handles(d) == {d[i].ws : i \in 1..Len(d)} \ {0}

DictDel(d, k) ==
    IF k \in DictKeys(d) THEN [d EXCEPT ![DictIndex(d, k)] = Tomb] ELSE d

\* ------------------------------------------------------------- messages
NoMsg == [type |-> "none"]

\* ------------------------------------------------- the manager's state
\* The operators below work on a record of the state the manager's methods
\* read and write.
Mgr == [ac |-> active_connections, subs |-> subscriptions, running |-> running,
        ptask |-> price_update_task, task |-> task, cache |-> cache]

\* CancelledError unwinds the frame of the task it is thrown into: the
\* locals of a suspended task whose cancellation is pending are never read
\* again, and the state keeps only where it is suspended.
DropDead(tasks) ==
    [t \in DOMAIN tasks |->
        IF tasks[t].cancel
        THEN [pc |-> tasks[t].pc, cancel |-> TRUE, cryptos |-> <<>>, pos |-> 0,
              used |-> 0, disconnected |-> <<>>, ci |-> 0, pending |-> {}, seen |-> {},
              sused |-> 0, sdead |-> FALSE, out |-> tasks[t].out,
              start |-> {}, tried |-> {}, csent |-> {}, wait |-> tasks[t].wait]
        ELSE tasks[t]]

Commit(m) ==
    /\ active_connections' = m.ac
    /\ subscriptions' = m.subs
    /\ running' = m.running
    /\ price_update_task' = m.ptask
    /\ task' = DropDead(m.task)
    /\ cache' = m.cache

SubscribersOf(subs, a) == IF a \in DOMAIN subs THEN subs[a] ELSE {}

\* ------------------------------------------------------ scheduler tasks
\* pc: "none" (not created), "new" (created, first step not yet run),
\* "fetch" (in the HTTP get), "bsend" (in a send of broadcast), "ssend" (in a
\* send of broadcast_to_subscribers), "sleep", "backoff", "done".
\* cancel: Task.cancel() was called and CancelledError is not yet delivered.
\* pos/used: the dict iterator of broadcast (next index, size when created).
\* pending/seen/sused/sdead: the set iterator of broadcast_to_subscribers.
\* start/tried: the websockets registered when the broadcast in progress
\* began, and those it has attempted a send on; csent: the <<websocket, asset>>
\* pairs of the coin_update sends of the tick in progress (kept for the
\* record only).  wait: the seconds of the asyncio.sleep the task is in.
NoTask == [pc |-> "none", cancel |-> FALSE, cryptos |-> <<>>, pos |-> 0, used |-> 0,
           disconnected |-> <<>>, ci |-> 0, pending |-> {}, seen |-> {}, sused |-> 0,
           sdead |-> FALSE, out |-> NoMsg, start |-> {}, tried |-> {}, csent |-> {}, wait |-> 0]

\* What a finished task leaves behind.
DoneTask == [NoTask EXCEPT !.pc = "done"]

TaskAlive(tk) == tk.pc \notin {"none", "done"}

\* The asset whose subscriber set a task is iterating, 0 if none.
IterAsset(tk) == IF tk.pc = "ssend" /\ ~tk.cancel THEN tk.cryptos[tk.ci].id ELSE 0

\* Mutant: the cancellation request is lost.
Cancel_Lost(tasks, p) == tasks

\* asyncio.Task.cancel(): a no-op on a finished task.
Cancel(tasks, p) ==
    IF TaskAlive(tasks[p]) THEN [tasks EXCEPT ![p].cancel = TRUE] ELSE tasks

\* ------------------------------------------------ ConnectionManager
\* Mutant: subscribing a client that is already subscribed removes it.
RECURSIVE Subscribe_Toggle(_, _, _)
Subscribe_Toggle(subs, client_id, crypto_ids) ==
    IF crypto_ids = <<>> THEN subs
    ELSE LET a == Head(crypto_ids)
             old == SubscribersOf(subs, a)
             s1 == [x \in DOMAIN subs \cup {a} |->
                       IF x # a THEN subs[x]
                       ELSE IF client_id \in old THEN old \ {client_id}
                       ELSE old \cup {client_id}]
         IN  Subscribe_Toggle(s1, client_id, Tail(crypto_ids))

\* Mutant: subscribe adds the client only to a set that already exists.
RECURSIVE Subscribe_NoCreate(_, _, _)
Subscribe_NoCreate(subs, client_id, crypto_ids) ==
    IF crypto_ids = <<>> THEN subs
    ELSE LET a == Head(crypto_ids)
             s1 == IF a \in DOMAIN subs
                   THEN [subs EXCEPT ![a] = @ \cup {client_id}]
                   ELSE subs
         IN  Subscribe_NoCreate(s1, client_id, Tail(crypto_ids))

RECURSIVE Subscribe(_, _, _)
Subscribe(subs, client_id, crypto_ids) ==
    IF crypto_ids = <<>> THEN subs
    ELSE LET a == Head(crypto_ids)
             s1 == [x \in DOMAIN subs \cup {a} |->
                       IF x = a THEN SubscribersOf(subs, a) \cup {client_id} ELSE subs[x]]
         IN  Subscribe(s1, client_id, Tail(crypto_ids))

\* Mutant: unsubscribe empties the set of each listed asset.
RECURSIVE Unsubscribe_ClearsAsset(_, _, _)
Unsubscribe_ClearsAsset(subs, client_id, crypto_ids) ==
    IF crypto_ids = <<>> THEN subs
    ELSE LET a == Head(crypto_ids)
             s1 == IF a \in DOMAIN subs
                   THEN [subs EXCEPT ![a] = {}]
                   ELSE subs
         IN  Unsubscribe_ClearsAsset(s1, client_id, Tail(crypto_ids))

RECURSIVE Unsubscribe(_, _, _)
Unsubscribe(subs, client_id, crypto_ids) ==
    IF crypto_ids = <<>> THEN subs
    ELSE LET a == Head(crypto_ids)
             s1 == IF a \in DOMAIN subs
                   THEN [subs EXCEPT ![a] = @ \ {client_id}]
                   ELSE subs
         IN  Unsubscribe(s1, client_id, Tail(crypto_ids))

\* Mutant: the purge stops after the first key of the index.
Purge_FirstKeyOnly(subs, client_id) ==
    IF DOMAIN subs = {} THEN subs
    ELSE LET first == CHOOSE a \in DOMAIN subs : \A b \in DOMAIN subs : a <= b
             keep == {a \in DOMAIN subs : a # first \/ subs[a] \ {client_id} # {}}
         IN  [a \in keep |-> IF a = first THEN subs[a] \ {client_id} ELSE subs[a]]

\* Lines 44-48 of disconnect: discard the client from every set and delete
\* the sets that are then empty.
\* Mutant: disconnect drops every set the client is in, other members and all.
Purge_DropsSets(subs, client_id) ==
    LET keep == {a \in DOMAIN subs : client_id \notin subs[a] /\ subs[a] # {}}
    IN  [a \in keep |-> subs[a]]

Purge(subs, client_id) ==
    LET keep == {a \in DOMAIN subs : subs[a] \ {client_id} # {}}
    IN  [a \in keep |-> subs[a] \ {client_id}]

\* A set that disconnect deletes from the index is no longer the set under
\* its key; an iterator over it sees it shrunk to nothing.
RECURSIVE MarkDead(_, _)
MarkDead(tasks, deleted) ==
    LET hit == {t \in DOMAIN tasks :
                   IterAsset(tasks[t]) \in deleted /\ ~tasks[t].sdead}
    IN  IF hit = {} THEN tasks
        ELSE MarkDead([tasks EXCEPT ![CHOOSE t \in hit : TRUE].sdead = TRUE], deleted)

\* Mutant: disconnect never stops the scheduler.
Disconnect_KeepsRunning(m, client_id) ==
    [m EXCEPT !.ac = DictDel(m.ac, client_id), !.subs = Purge(m.subs, client_id),
              !.task = MarkDead(m.task, DOMAIN m.subs \ DOMAIN Purge(m.subs, client_id))]

\* Mutant: every disconnect stops the scheduler.
Disconnect_AlwaysStops(m, client_id) ==
    LET ac1 == DictDel(m.ac, client_id)
        subs1 == Purge(m.subs, client_id)
        tasks1 == MarkDead(m.task, DOMAIN m.subs \ DOMAIN subs1)
        m1 == [m EXCEPT !.ac = ac1, !.subs = subs1, !.task = tasks1]
    IN  [m1 EXCEPT !.running = FALSE,
                   !.task = IF m.ptask # 0 THEN Cancel(tasks1, m.ptask) ELSE tasks1]

Disconnect(m, client_id) ==
    LET ac1 == DictDel(m.ac, client_id)
        subs1 == Purge(m.subs, client_id)
        tasks1 == MarkDead(m.task, DOMAIN m.subs \ DOMAIN subs1)
        m1 == [m EXCEPT !.ac = ac1, !.subs = subs1, !.task = tasks1]
    IN  IF DictLen(ac1) = 0
        THEN [m1 EXCEPT !.running = FALSE,
                        !.task = IF m.ptask # 0 THEN Cancel(tasks1, m.ptask) ELSE tasks1]
        ELSE m1

\* The id the next created task gets.
NewTaskId(tasks) == CHOOSE t \in DOMAIN tasks :
    /\ tasks[t].pc = "none"
    /\ \A u \in DOMAIN tasks : u < t => tasks[u].pc # "none"

\* Mutant: connect starts a task whether or not one is running.
Connect_AlwaysStart(m, websocket, client_id) ==
    LET m1 == [m EXCEPT !.ac = DictSet(m.ac, client_id, websocket)]
        t == NewTaskId(m1.task)
    IN  [m1 EXCEPT !.running = TRUE, !.ptask = t,
                   !.task = [m1.task EXCEPT ![t].pc = "new"]]

\* connect, after websocket.accept() has returned.
Connect(m, websocket, client_id) ==
    LET m1 == [m EXCEPT !.ac = DictSet(m.ac, client_id, websocket)]
    IN  IF ~m1.running
        THEN LET t == NewTaskId(m1.task)
             IN  [m1 EXCEPT !.running = TRUE, !.ptask = t,
                            !.task = [m1.task EXCEPT ![t].pc = "new"]]
        ELSE m1

\* ------------------------------------------------------- CryptoService
\* A listing item; `complete` is false when the item lacks one of the keys
\* the scheduler subscripts (id, symbol, name, current_price).
Item(a, complete) == [id |-> a, complete |-> complete]

Listing(n) == [i \in 1..n |-> Item(i, TRUE)]

Malformed(n) == [i \in 1..n |-> Item(i, i < n)]

\* What the upstream listing endpoint may answer with.
Payloads == {Listing(0), Listing(NumAssets), Malformed(NumAssets)}

\* The cache key of the scheduler's call, get_all_cryptos(per_page=50).
CryptosKey(vs_currency, page, per_page, order) ==
    <<"cryptos", "_">> \o vs_currency \o <<"_">> \o page \o <<"_">> \o per_page
        \o <<"_">> \o order

ListingKey == CryptosKey(<<"usd">>, <<"1">>, <<"50">>, <<"market_cap_desc">>)

\* Mutant: an entry is still valid at the second of its expiry.
IsCacheValid_Inclusive(c, cache_key, t) ==
    IF cache_key \notin DOMAIN c THEN FALSE
    ELSE t <= c[cache_key].expires_at

IsCacheValid(c, cache_key, t) ==
    IF cache_key \notin DOMAIN c THEN FALSE
    ELSE t < c[cache_key].expires_at

None == [none |-> TRUE, data |-> <<>>]

GetFromCache(c, cache_key, t) ==
    IF IsCacheValid(c, cache_key, t)
    THEN [none |-> FALSE, data |-> c[cache_key].data]
    ELSE None

\* Python truth of what get_from_cache returned: None and empty are false.
Truthy(r) == ~r.none /\ r.data # <<>>

\* Mutant: a store sweeps the expired entries of the other keys.
SetCache_Sweeps(c, cache_key, data, ttl, t) ==
    LET ttl1 == IF ttl # 0 THEN ttl ELSE CACHE_TTL_SECONDS
        kept == {k \in DOMAIN c : t < c[k].expires_at}
    IN  [k \in kept \cup {cache_key} |->
            IF k = cache_key THEN [data |-> data, expires_at |-> t + ttl1] ELSE c[k]]

\* `ttl = ttl or self._cache_ttl`: 0 stands for the default argument None.
SetCache(c, cache_key, data, ttl, t) ==
    LET ttl1 == IF ttl # 0 THEN ttl ELSE CACHE_TTL_SECONDS
    IN  [k \in DOMAIN c \cup {cache_key} |->
            IF k = cache_key THEN [data |-> data, expires_at |-> t + ttl1] ELSE c[k]]

\* ---------------------------------------------------- the scheduler's code
\* Each operator below is the code a task runs from one point to its next
\* suspension; it gives the set of states the task may suspend or end in
\* (a set, because the iteration order of a Python set is not fixed).

\* Mutant: the error handler sleeps as long as a tick that went well.
WaitOf_Same(pc) == IF pc \in {"sleep", "backoff"} THEN SLEEP_SECONDS ELSE 0

\* `await asyncio.sleep(10)` at the end of the try body, `await
\* asyncio.sleep(5)` in the error handler.
WaitOf(pc) ==
    IF pc = "sleep" THEN SLEEP_SECONDS
    ELSE IF pc = "backoff" THEN BACKOFF_SECONDS
    ELSE 0

\* The locals are dead once the task sleeps or ends.
Suspend(m, t, pc) ==
    {[m EXCEPT !.task[t] = [NoTask EXCEPT !.pc = pc, !.cancel = m.task[t].cancel,
                                          !.wait = WaitOf(pc)]]}

\* Mutant: an error inside a tick ends the loop.
Backoff_Ends(m, t) == {[m EXCEPT !.task[t] = DoneTask]}

\* `except Exception` of _broadcast_price_updates: await asyncio.sleep(5)
Backoff(m, t) == Suspend(m, t, "backoff")

\* the loop ends: `while self._running` is false, or CancelledError
Finish(m, t) == {[m EXCEPT !.task[t] = DoneTask]}

\* `for client_id in disconnected: self.disconnect(client_id)`
RECURSIVE Cleanup(_, _)
Cleanup(m, ids) ==
    IF ids = <<>> THEN m ELSE Cleanup(Disconnect(m, Head(ids)), Tail(ids))

\* The keys of an entry of price_data.
PriceKeys == {"id", "symbol", "name", "current_price", "price_change_24h", "market_cap"}

\* Mutant: price_data lists the assets in the reverse of the listing's order.
PriceData_Reversed(cryptos) ==
    [i \in 1..Len(cryptos) |-> [id |-> cryptos[Len(cryptos) + 1 - i].id, keys |-> PriceKeys]]

\* `price_data = [{...} for c in cryptos]`: an entry is written as the id it
\* carries and the keys it has.
PriceData(cryptos) == [i \in 1..Len(cryptos) |-> [id |-> cryptos[i].id, keys |-> PriceKeys]]

RECURSIVE CryptoLoop(_, _, _)
RECURSIVE SubsNext(_, _)
RECURSIVE SubsNext_Stale(_, _)

\* broadcast_to_subscribers, from the end of its iteration
SubsEnd(m, t) ==
    LET tk == m.task[t]
        m1 == Cleanup(m, tk.disconnected)
    IN  CryptoLoop([m1 EXCEPT !.task[t].disconnected = <<>>], t, tk.ci + 1)

\* Mutant: delivery goes over the subscribers the set had when the
\* iteration began, whoever has left it since.
SubsNext_Stale(m, t) ==
    LET tk == m.task[t]
        a == tk.cryptos[tk.ci].id
        left == tk.pending \ tk.seen
        Yield(c) ==
            LET m1 == [m EXCEPT !.task[t].seen = @ \cup {c}]
            IN  IF c \in DictKeys(m.ac)
                THEN {[m1 EXCEPT !.task[t].pc = "ssend",
                                 !.task[t].csent = @ \cup {<<DictGet(m.ac, c), a>>},
                                 !.task[t].out = [type |-> "coin_update",
                                                  to |-> DictGet(m.ac, c),
                                                  cid |-> c, data |-> <<a>>]]}
                ELSE SubsNext_Stale(m1, t)
    IN  IF left = {} THEN SubsEnd(m, t) ELSE UNION {Yield(c) : c \in left}

\* Mutant: delivery to a subscriber no longer checks that the client is
\* registered.
SubsNext_NoCheck(m, t) ==
    LET tk == m.task[t]
        a == tk.cryptos[tk.ci].id
        cur == IF tk.sdead THEN {} ELSE SubscribersOf(m.subs, a)
        must == (tk.pending \cap cur) \ tk.seen
        may == (cur \ tk.seen) \ tk.pending
        Yield(c) ==
            {[m EXCEPT !.task[t].seen = @ \cup {c}, !.task[t].pc = "ssend",
                       !.task[t].out = [type |-> "coin_update",
                                        to |-> IF c \in DictKeys(m.ac)
                                               THEN DictGet(m.ac, c) ELSE 0,
                                        cid |-> c, data |-> <<a>>]]}
    IN  IF Cardinality(cur) # tk.sused
        THEN Backoff(m, t)
        ELSE UNION {Yield(c) : c \in must \cup may}
               \cup (IF must = {} THEN SubsEnd(m, t) ELSE {})

\* broadcast_to_subscribers, at the next() of `for client_id in self.subscriptions[crypto_id]`
SubsNext(m, t) ==
    LET tk == m.task[t]
        a == tk.cryptos[tk.ci].id
        cur == IF tk.sdead THEN {} ELSE SubscribersOf(m.subs, a)
        must == (tk.pending \cap cur) \ tk.seen
        may == (cur \ tk.seen) \ tk.pending
        Yield(c) ==
            LET m1 == [m EXCEPT !.task[t].seen = @ \cup {c}]
            IN  IF c \in DictKeys(m.ac)
                THEN {[m1 EXCEPT !.task[t].pc = "ssend",
                                 !.task[t].csent = @ \cup {<<DictGet(m.ac, c), a>>},
                                 !.task[t].out = [type |-> "coin_update",
                                                  to |-> DictGet(m.ac, c),
                                                  cid |-> c, data |-> <<a>>]]}
                ELSE SubsNext(m1, t)
    IN  IF Cardinality(cur) # tk.sused
        THEN Backoff(m, t)
        ELSE UNION {Yield(c) : c \in must \cup may}
               \cup (IF must = {} THEN SubsEnd(m, t) ELSE {})

\* broadcast_to_subscribers(crypto_id, message), from its first line
SubsStart(m, t, i) ==
    LET a == m.task[t].cryptos[i].id
        S == m.subs[a]
    IN  SubsNext([m EXCEPT !.task[t].ci = i, !.task[t].pending = S,
                           !.task[t].seen = {}, !.task[t].sused = Cardinality(S),
                           !.task[t].sdead = FALSE, !.task[t].disconnected = <<>>,
                           !.task[t].out = NoMsg, !.task[t].pos = 0,
                           !.task[t].used = 0, !.task[t].start = {},
                           !.task[t].tried = {}], t)

\* `for crypto in cryptos:` from item i on, then `await asyncio.sleep(10)`
CryptoLoop(m, t, i) ==
    IF i > Len(m.task[t].cryptos) THEN Suspend(m, t, "sleep")
    ELSE IF m.task[t].cryptos[i].id \in DOMAIN m.subs THEN SubsStart(m, t, i)
    ELSE CryptoLoop(m, t, i + 1)

\* The first live entry of the dict at index pos or later, 0 if none.
NextEntry(d, pos) ==
    IF \E i \in pos..Len(d) : d[i].cid # 0
    THEN CHOOSE i \in pos..Len(d) : d[i].cid # 0 /\ \A j \in pos..(i - 1) : d[j].cid = 0
    ELSE 0

\* broadcast, at the next() of `for client_id, websocket in self.active_connections.items()`
BcastNext(m, t) ==
    LET tk == m.task[t]
        i == NextEntry(m.ac, tk.pos)
    IN  IF DictLen(m.ac) # tk.used THEN Backoff(m, t)
        ELSE IF i = 0
        THEN LET m1 == Cleanup(m, tk.disconnected)
             IN  CryptoLoop([m1 EXCEPT !.task[t].disconnected = <<>>], t, 1)
        ELSE {[m EXCEPT !.task[t].pc = "bsend", !.task[t].pos = i + 1,
                        !.task[t].tried = @ \cup {m.ac[i].ws},
                        !.task[t].out = [type |-> "price_update", to |-> m.ac[i].ws,
                                         cid |-> m.ac[i].cid,
                                         data |-> PriceData(tk.cryptos)]]}

\* broadcast(message), from its first line
BcastStart(m, t) ==
    BcastNext([m EXCEPT !.task[t].disconnected = <<>>, !.task[t].pos = 1,
                        !.task[t].used = DictLen(m.ac),
                        !.task[t].start = Handles(m.ac), !.task[t].tried = {},
                        !.task[t].csent = {}], t)

\* The tick from the return of get_all_cryptos: build price_data (KeyError on
\* an item that lacks a key), then broadcast.
AfterFetch(m, t, data) ==
    IF \E i \in 1..Len(data) : ~data[i].complete THEN Backoff(m, t)
    ELSE BcastStart([m EXCEPT !.task[t].cryptos = data], t)

\* `while self._running:` and the call of get_all_cryptos up to its await
LoopTop(m, t, time) ==
    IF ~m.running THEN Finish(m, t)
    ELSE LET cached == GetFromCache(m.cache, ListingKey, time)
         IN  IF Truthy(cached)
             THEN AfterFetch([m EXCEPT !.task[t].wait = 0], t, cached.data)
             ELSE Suspend(m, t, "fetch")

\* --------------------------------------------------- scheduler task steps
\* Mutant: a resumed task does not see the pending cancellation.
Suspended_IgnoresCancel(t, pc) == task[t].pc = pc

\* A task resumes normally from `pc` only if no cancellation is pending.
Suspended(t, pc) == task[t].pc = pc /\ ~task[t].cancel

\* The first step of a created task.
TaskStart(t) ==
    /\ Suspended(t, "new")
    /\ \E r \in LoopTop(Mgr, t, now) : Commit(r)
    /\ UNCHANGED <<session, now, call>>

\* CancelledError is thrown into the task where it is suspended: out of the
\* fetch or a send it reaches `except asyncio.CancelledError: break`, out of
\* the backoff sleep it leaves the coroutine; a task not yet started never
\* runs.
TaskCancelled(t) ==
    /\ TaskAlive(task[t])
    /\ task[t].cancel
    /\ \E r \in Finish(Mgr, t) : Commit(r)
    /\ UNCHANGED <<session, now, call>>

\* The HTTP get returns 200 with `data`: _set_cache, return, and the tick goes on.
FetchDone(t, data) ==
    /\ Suspended(t, "fetch")
    /\ LET m1 == [Mgr EXCEPT !.cache = SetCache(cache, ListingKey, data, 0, now)]
       IN  \E r \in AfterFetch(m1, t, data) : Commit(r)
    /\ UNCHANGED <<session, now, call>>

\* Mutant: after a failed fetch the tick goes on and broadcasts an empty
\* listing.
FetchFail_Partial(t) ==
    /\ Suspended(t, "fetch")
    /\ \E r \in AfterFetch(Mgr, t, <<>>) : Commit(r)
    /\ UNCHANGED <<session, now, call>>

\* The HTTP get raises (timeout, transport error) or raise_for_status does.
FetchFail(t) ==
    /\ Suspended(t, "fetch")
    /\ \E r \in Backoff(Mgr, t) : Commit(r)
    /\ UNCHANGED <<session, now, call>>

\* websocket.send_json of broadcast returns.
BsendOk(t) ==
    /\ Suspended(t, "bsend")
    /\ \E r \in BcastNext(Mgr, t) : Commit(r)
    /\ UNCHANGED <<session, now, call>>

\* Mutant: the exception of a failed send leaves broadcast.
BsendFail_Raises(t) ==
    /\ Suspended(t, "bsend")
    /\ \E r \in Backoff(Mgr, t) : Commit(r)
    /\ UNCHANGED <<session, now, call>>

\* websocket.send_json of broadcast raises: disconnected.append(client_id)
BsendFail(t) ==
    /\ Suspended(t, "bsend")
    /\ LET m1 == [Mgr EXCEPT !.task[t].disconnected = Append(@, task[t].out.cid)]
       IN  \E r \in BcastNext(m1, t) : Commit(r)
    /\ UNCHANGED <<session, now, call>>

\* send_json of broadcast_to_subscribers returns.
SsendOk(t) ==
    /\ Suspended(t, "ssend")
    /\ \E r \in SubsNext(Mgr, t) : Commit(r)
    /\ UNCHANGED <<session, now, call>>

\* send_json of broadcast_to_subscribers raises.
SsendFail(t) ==
    /\ Suspended(t, "ssend")
    /\ LET m1 == [Mgr EXCEPT !.task[t].disconnected = Append(@, task[t].out.cid)]
       IN  \E r \in SubsNext(m1, t) : Commit(r)
    /\ UNCHANGED <<session, now, call>>

\* asyncio.sleep(10) returns.
WakeSleep(t) ==
    /\ Suspended(t, "sleep")
    /\ \E r \in LoopTop(Mgr, t, now) : Commit(r)
    /\ UNCHANGED <<session, now, call>>

\* asyncio.sleep(5) of the error handler returns.
WakeBackoff(t) ==
    /\ Suspended(t, "backoff")
    /\ \E r \in LoopTop(Mgr, t, now) : Commit(r)
    /\ UNCHANGED <<session, now, call>>

\* ------------------------------------------------------------ sessions
\* pc: "idle" (no request yet), "accept" (in websocket.accept), "recv" (in
\* receive_json), "send" (in the send_json of send_personal_message), "done".
\* cid: the client id of the URL (main.py: /ws/{client_id}); two sessions may
\* carry the same id.
NoSession == [pc |-> "idle", cid |-> 0, out |-> NoMsg]

ClientOf(s) == session[s].cid

RECURSIVE SeqsUpTo(_, _)
SeqsUpTo(S, n) ==
    IF n = 0 THEN {<<>>}
    ELSE LET shorter == SeqsUpTo(S, n - 1)
         IN  shorter \cup {Append(q, x) : q \in shorter, x \in S}

\* The crypto_ids lists a client sends.
IdLists == SeqsUpTo(Assets, MaxIds)

\* Client ids are interchangeable, so session s draws its id from the
\* first s ids only.
ClientChoices(s) == {c \in ClientIds : c <= s}

\* A client opens /ws/{client_id}: websocket_endpoint runs to `await websocket.accept()`.
SessOpen(s, client_id) ==
    /\ session[s].pc = "idle"
    /\ session' = [session EXCEPT ![s].pc = "accept", ![s].cid = client_id]
    /\ UNCHANGED <<active_connections, subscriptions, running, price_update_task,
                   task, cache, now, call>>

\* accept returns: the rest of connect, then the loop's first receive_json.
SessAccept(s) ==
    /\ session[s].pc = "accept"
    /\ Commit(Connect(Mgr, s, ClientOf(s)))
    /\ session' = [session EXCEPT ![s].pc = "recv"]
    /\ UNCHANGED <<now, call>>

\* accept raises (the client is gone): connect is outside the try, the
\* handler ends with nothing registered.
SessAcceptFail(s) ==
    /\ session[s].pc = "accept"
    /\ session' = [session EXCEPT ![s] = [pc |-> "done", cid |-> 0, out |-> NoMsg]]
    /\ UNCHANGED <<active_connections, subscriptions, running, price_update_task,
                   task, cache, now, call>>

\* Mutant: the acknowledgment does not echo the list of the request.
SendPersonal_NoEcho(s, message) ==
    IF ClientOf(s) \in DictKeys(active_connections)
    THEN [pc |-> "send", cid |-> ClientOf(s),
          out |-> [type |-> message.type, to |-> DictGet(active_connections, ClientOf(s)),
                   cid |-> ClientOf(s), data |-> <<>>]]
    ELSE [pc |-> "recv", cid |-> ClientOf(s), out |-> NoMsg]

\* send_personal_message up to its await.
SendPersonal(s, message) ==
    IF ClientOf(s) \in DictKeys(active_connections)
    THEN [pc |-> "send", cid |-> ClientOf(s),
          out |-> [type |-> message.type, to |-> DictGet(active_connections, ClientOf(s)),
                   cid |-> ClientOf(s), data |-> message.data]]
    ELSE [pc |-> "recv", cid |-> ClientOf(s), out |-> NoMsg]

\* {"action": "subscribe", "crypto_ids": [...]}
SessSubscribe(s, crypto_ids) ==
    /\ session[s].pc = "recv"
    /\ subscriptions' = Subscribe(subscriptions, ClientOf(s), crypto_ids)
    /\ session' = [session EXCEPT
                      ![s] = SendPersonal(s, [type |-> "subscribed", data |-> crypto_ids])]
    /\ UNCHANGED <<active_connections, running, price_update_task, task, cache, now, call>>

\* {"action": "unsubscribe", "crypto_ids": [...]}
SessUnsubscribe(s, crypto_ids) ==
    /\ session[s].pc = "recv"
    /\ subscriptions' = Unsubscribe(subscriptions, ClientOf(s), crypto_ids)
    /\ session' = [session EXCEPT
                      ![s] = SendPersonal(s, [type |-> "unsubscribed", data |-> crypto_ids])]
    /\ UNCHANGED <<active_connections, running, price_update_task, task, cache, now, call>>

\* Mutant: a ping is answered and drops the client's subscriptions.
SessPing_Purges(s) ==
    /\ session[s].pc = "recv"
    /\ session' = [session EXCEPT ![s] = SendPersonal(s, [type |-> "pong", data |-> <<>>])]
    /\ subscriptions' = Purge(subscriptions, ClientOf(s))
    /\ UNCHANGED <<active_connections, running, price_update_task, task, cache, now, call>>

\* {"action": "ping"}
SessPing(s) ==
    /\ session[s].pc = "recv"
    /\ session' = [session EXCEPT ![s] = SendPersonal(s, [type |-> "pong", data |-> <<>>])]
    /\ UNCHANGED <<active_connections, subscriptions, running, price_update_task,
                   task, cache, now, call>>

\* Mutant: a message with an unknown action ends the session.
SessUnknown_Closes(s) ==
    /\ session[s].pc = "recv"
    /\ Commit(Disconnect(Mgr, ClientOf(s)))
    /\ session' = [session EXCEPT ![s] = [pc |-> "done", cid |-> 0, out |-> NoMsg]]
    /\ UNCHANGED <<now, call>>

\* Mutant: a message with an unknown action is answered with an error.
SessUnknown_RepliesError(s) ==
    /\ session[s].pc = "recv"
    /\ session' = [session EXCEPT ![s] = SendPersonal(s, [type |-> "error", data |-> <<>>])]
    /\ UNCHANGED <<active_connections, subscriptions, running, price_update_task,
                   task, cache, now, call>>

\* A message with another action, or none: no branch of the if is taken.
SessUnknown(s) ==
    /\ session[s].pc = "recv"
    /\ UNCHANGED vars

\* Mutant: the handler returns without calling manager.disconnect.
SessRecvError_NoCleanup(s) ==
    /\ session[s].pc = "recv"
    /\ session' = [session EXCEPT ![s] = [pc |-> "done", cid |-> 0, out |-> NoMsg]]
    /\ UNCHANGED <<active_connections, subscriptions, running, price_update_task,
                   task, cache, now, call>>

\* receive_json raises WebSocketDisconnect or a decode error, or the message
\* is no JSON object: both except clauses call manager.disconnect.
SessRecvError(s) ==
    /\ session[s].pc = "recv"
    /\ Commit(Disconnect(Mgr, ClientOf(s)))
    /\ session' = [session EXCEPT ![s] = [pc |-> "done", cid |-> 0, out |-> NoMsg]]
    /\ UNCHANGED <<now, call>>

\* The send_json of send_personal_message returns.
SessSendOk(s) ==
    /\ session[s].pc = "send"
    /\ session' = [session EXCEPT ![s] = [pc |-> "recv", cid |-> ClientOf(s), out |-> NoMsg]]
    /\ UNCHANGED <<active_connections, subscriptions, running, price_update_task,
                   task, cache, now, call>>

\* The send_json of send_personal_message raises: self.disconnect(client_id),
\* and the session loop goes on to its next receive_json.
SessSendFail(s) ==
    /\ session[s].pc = "send"
    /\ Commit(Disconnect(Mgr, ClientOf(s)))
    /\ session' = [session EXCEPT ![s] = [pc |-> "recv", cid |-> ClientOf(s), out |-> NoMsg]]
    /\ UNCHANGED <<now, call>>

\* ------------------------------------------- the callers of the service
\* The REST handlers call CryptoService's read methods; every method is the
\* same cache-aside read (key, _get_from_cache, `if cached:`, HTTP get,
\* _set_cache) and they differ in the key and the ttl argument.

\* The cache key of get_crypto_history.
HistoryKey(crypto_id, vs_currency, days) ==
    <<"history", "_">> \o crypto_id \o <<"_">> \o vs_currency \o <<"_">> \o days

\* `ttl = 60 if days in ["1", "7"] else 300`
HistoryTtl(days) ==
    IF days \in {<<"1">>, <<"7">>} THEN HISTORY_RECENT_TTL ELSE HISTORY_TTL

\* The cache key of get_crypto_by_id.
DetailKey(crypto_id) == <<"crypto", "_">> \o crypto_id

\* The cache keys of get_market_stats and get_trending.
StatsKey == <<"global_stats">>

TrendingKey == <<"trending">>

\* str.lower() on the letters a query is made of here.
LowerChar(ch) == IF ch = "B" THEN "b" ELSE IF ch = "T" THEN "t" ELSE ch

Lower(str) == [i \in 1..Len(str) |-> LowerChar(str[i])]

\* The cache key of search_cryptos.
SearchKey(query) == <<"search", "_">> \o Lower(query)

\* The reads the callers issue: the market listing with the defaults of
\* get_all_cryptos and the 7-day history of one asset.
NoReq == [op |-> "none", days |-> <<>>]

Requests == {[op |-> "cryptos", days |-> <<>>], [op |-> "history", days |-> <<"7">>]}

\* One read of every method: the three histories differ in `days`.
AllRequests ==
    Requests \cup {[op |-> "history", days |-> <<"1">>],
                   [op |-> "history", days |-> <<"30">>],
                   [op |-> "detail", days |-> <<>>],
                   [op |-> "stats", days |-> <<>>],
                   [op |-> "search", days |-> <<>>],
                   [op |-> "trending", days |-> <<>>]}

\* str() of a page number or page size, as the f-string of the key renders it.
Digit(n) == <<"0", "1", "2", "3", "4", "5", "6", "7", "8", "9">>[n + 1]

RECURSIVE Str(_)
Str(n) == IF n < 10 THEN <<Digit(n)>> ELSE Str(n \div 10) \o <<Digit(n % 10)>>

\* Reads with the parameters the routes pass on: the currency, the sort
\* order, the asset id and the days are strings of the caller's choice (here
\* of the letters b, u, x, a digit and the underscore), page and page size
\* are integers.
NoArgs == [vs |-> <<>>, page |-> 0, per_page |-> 0, order |-> <<>>, id |-> <<>>,
           query |-> <<>>]

Currencies == {<<"u">>, <<"u", "_", "1">>}

KeyedRequests ==
    {[NoArgs EXCEPT !.vs = vs, !.page = page, !.per_page = per_page, !.order = order]
        @@ [op |-> "cryptos", days |-> <<>>] :
            vs \in Currencies, page \in {1, 2}, per_page \in {2, 3},
            order \in {<<"x">>, <<"3", "_", "x">>}}
    \cup {[NoArgs EXCEPT !.id = <<"b">>, !.vs = vs] @@ [op |-> "history", days |-> days] :
            vs \in Currencies, days \in {<<"7">>, <<"1", "_", "7">>}}
    \cup {[NoArgs EXCEPT !.id = id] @@ [op |-> "detail", days |-> <<>>] :
            id \in {<<"b">>, <<"b", "_", "u">>}}
    \cup {[NoArgs EXCEPT !.query = query] @@ [op |-> "search", days |-> <<>>] :
            query \in {<<"B">>, <<"b">>}}

\* The cache key of a read with parameters.
KeyOfArgs(q) ==
    CASE q.op = "cryptos" -> CryptosKey(q.vs, Str(q.page), Str(q.per_page), q.order)
      [] q.op = "history" -> HistoryKey(q.id, q.vs, q.days)
      [] q.op = "detail" -> DetailKey(q.id)
      [] OTHER -> SearchKey(q.query)

KeyOf(q) ==
    CASE "vs" \in DOMAIN q -> KeyOfArgs(q)
      [] q.op = "cryptos" -> CryptosKey(<<"usd">>, <<"1">>, <<"100">>, <<"market_cap_desc">>)
      [] q.op = "history" -> HistoryKey(<<"bitcoin">>, <<"usd">>, q.days)
      [] q.op = "detail" -> DetailKey(<<"bitcoin">>)
      [] q.op = "stats" -> StatsKey
      [] q.op = "search" -> SearchKey(<<"B", "T", "c">>)
      [] OTHER -> TrendingKey

\* Mutant: every method leaves the ttl to _set_cache's default.
TtlArg_Default(q) == 0

\* The ttl argument the method passes to _set_cache, 0 for none.
TtlArg(q) ==
    CASE q.op = "history" -> HistoryTtl(q.days)
      [] q.op = "search" -> SEARCH_TTL
      [] q.op = "trending" -> TRENDING_TTL
      [] OTHER -> 0

\* What the upstream may answer a read with; the first is the empty list.
Answers == {Listing(n) : n \in 0..NumAssets}

\* How much time passes between two steps.
Steps == {HISTORY_RECENT_TTL, CACHE_TTL_SECONDS - HISTORY_RECENT_TTL}

\* pc: "idle" (between two reads) or "http" (in the HTTP get of a miss).
\* req: the read in progress, or the last one; reads: the reads finished;
\* fetched: the HTTP gets issued; res: what the last finished read returned.
NoRes == [kind |-> "none", data |-> <<>>]

NoCall == [pc |-> "idle", req |-> NoReq, reads |-> 0, fetched |-> 0, res |-> NoRes]

\* A caller enters a read method: the code up to `return cached` or to the
\* await of the HTTP get.
CallRead(c, q) ==
    /\ call[c].pc = "idle"
    /\ call[c].reads < MaxReads
    /\ LET cached == GetFromCache(cache, KeyOf(q), now)
       IN  call' = [call EXCEPT ![c] =
                      IF Truthy(cached)
                      THEN [@ EXCEPT !.req = q, !.reads = @ + 1,
                                     !.res = [kind |-> "hit", data |-> cached.data]]
                      ELSE [@ EXCEPT !.req = q, !.pc = "http", !.fetched = @ + 1]]
    /\ UNCHANGED <<active_connections, subscriptions, running, price_update_task,
                   task, session, cache, now>>

\* Mutant: a fetched payload does not replace an entry that is still valid.
CallDone_FirstWins(c, data) ==
    /\ call[c].pc = "http"
    /\ cache' = IF IsCacheValid(cache, KeyOf(call[c].req), now) THEN cache
                ELSE SetCache(cache, KeyOf(call[c].req), data, TtlArg(call[c].req), now)
    /\ call' = [call EXCEPT ![c].pc = "idle", ![c].reads = @ + 1,
                            ![c].res = [kind |-> "fetched", data |-> data]]
    /\ UNCHANGED <<active_connections, subscriptions, running, price_update_task,
                   task, session, now>>

\* The HTTP get returns 200 with `data`: _set_cache(cache_key, data[, ttl]),
\* return data.
CallDone(c, data) ==
    /\ call[c].pc = "http"
    /\ cache' = SetCache(cache, KeyOf(call[c].req), data, TtlArg(call[c].req), now)
    /\ call' = [call EXCEPT ![c].pc = "idle", ![c].reads = @ + 1,
                            ![c].res = [kind |-> "fetched", data |-> data]]
    /\ UNCHANGED <<active_connections, subscriptions, running, price_update_task,
                   task, session, now>>

\* Mutant: a failed fetch falls back on the entry of the key, expired or not.
CallFail_ServesStale(c) ==
    /\ call[c].pc = "http"
    /\ call' = [call EXCEPT ![c].pc = "idle", ![c].reads = @ + 1,
                            ![c].res = IF KeyOf(call[c].req) \in DOMAIN cache
                                       THEN [kind |-> "hit",
                                             data |-> cache[KeyOf(call[c].req)].data]
                                       ELSE [kind |-> "error", data |-> <<>>]]
    /\ UNCHANGED <<active_connections, subscriptions, running, price_update_task,
                   task, session, cache, now>>

\* The HTTP get raises, or raise_for_status does: the exception leaves the
\* method before _set_cache.
CallFail(c) ==
    /\ call[c].pc = "http"
    /\ call' = [call EXCEPT ![c].pc = "idle", ![c].reads = @ + 1,
                            ![c].res = [kind |-> "error", data |-> <<>>]]
    /\ UNCHANGED <<active_connections, subscriptions, running, price_update_task,
                   task, session, cache, now>>

\* Time passes.
Elapse(d) ==
    /\ now + d <= MaxNow
    /\ now' = now + d
    /\ UNCHANGED <<active_connections, subscriptions, running, price_update_task,
                   task, session, cache, call>>

\* ------------------------------------------------------ specification
Init ==
    /\ active_connections = <<>>
    /\ subscriptions = <<>>
    /\ running = FALSE
    /\ price_update_task = 0
    /\ task = [t \in TaskIds |-> NoTask]
    /\ session = [s \in Sessions |-> NoSession]
    /\ cache = <<>>
    /\ now = 0
    /\ call = [c \in Callers |-> NoCall]

Next ==
    \/ \E t \in TaskIds : TaskStart(t)
    \/ \E t \in TaskIds : TaskCancelled(t)
    \/ \E t \in TaskIds, data \in Payloads : FetchDone(t, data)
    \/ \E t \in TaskIds : FetchFail(t)
    \/ \E t \in TaskIds : BsendOk(t)
    \/ \E t \in TaskIds : BsendFail(t)
    \/ \E t \in TaskIds : SsendOk(t)
    \/ \E t \in TaskIds : SsendFail(t)
    \/ \E t \in TaskIds : WakeSleep(t)
    \/ \E t \in TaskIds : WakeBackoff(t)
    \/ \E s \in Sessions : \E c \in ClientChoices(s) : SessOpen(s, c)
    \/ \E s \in Sessions : SessAccept(s)
    \/ \E s \in Sessions : SessAcceptFail(s)
    \/ \E s \in Sessions, ids \in IdLists : SessSubscribe(s, ids)
    \/ \E s \in Sessions, ids \in IdLists : SessUnsubscribe(s, ids)
    \/ \E s \in Sessions : SessPing(s)
    \/ \E s \in Sessions : SessUnknown(s)
    \/ \E s \in Sessions : SessRecvError(s)
    \/ \E s \in Sessions : SessSendOk(s)
    \/ \E s \in Sessions : SessSendFail(s)

Spec == Init /\ [][Next]_vars

\* ------------------------------------- the cache-aside reads alone
NextCache ==
    \/ \E c \in Callers, q \in Requests : CallRead(c, q)
    \/ \E c \in Callers, data \in Answers : CallDone(c, data)
    \/ \E c \in Callers : CallFail(c)
    \/ \E d \in Steps : Elapse(d)

SpecCache == Init /\ [][NextCache]_vars

\* ------------------------------------------- the reads of every method
\* One caller reads through every method of the service and is answered
\* when it misses, with time passing between the reads.
NextTtl ==
    \/ \E q \in AllRequests : CallRead(1, q)
    \/ CallDone(1, Listing(NumAssets))
    \/ \E d \in Steps : Elapse(d)

SpecTtl == Init /\ [][NextTtl]_vars

\* ------------------------------------------- reads with parameters
\* One caller reads twice, with parameters of its choice, and is answered
\* when it misses.
NextKeys ==
    \/ \E q \in KeyedRequests : CallRead(1, q)
    \/ CallDone(1, Listing(NumAssets))

SpecKeys == Init /\ [][NextKeys]_vars

\* ------------------------------------------- the subscription index alone
\* subscribe and unsubscribe are functions of the index, the client and the
\* list.  This specification applies them to every index the manager can
\* hold for the clients of two open sessions, with every list of up to
\* MaxIds + 1 ids, lists that repeat an id included, while the scheduler
\* sleeps between two ticks.
AnyIdLists == SeqsUpTo(Assets, MaxIds + 1)

\* The indices over the clients in `clients`: any set of asset keys, each
\* with any set of subscribers (empty sets are what unsubscribe leaves).
Indices(clients) == UNION {[K -> SUBSET clients] : K \in SUBSET Assets}

\* The registry after sessions 1..n have connected in turn, session s as
\* client cids[s] with its own websocket.
RECURSIVE RegistryOf(_, _)
RegistryOf(cids, n) ==
    IF n = 0 THEN <<>> ELSE DictSet(RegistryOf(cids, n - 1), cids[n], n)

InitIndex ==
    /\ \E cids \in [Sessions -> ClientIds] :
          /\ session = [s \in Sessions |-> [pc |-> "recv", cid |-> cids[s], out |-> NoMsg]]
          /\ active_connections = RegistryOf(cids, NumSessions)
          /\ subscriptions \in Indices({cids[s] : s \in Sessions})
    /\ running = TRUE
    /\ price_update_task = 1
    /\ task = [t \in TaskIds |-> IF t = 1 THEN [NoTask EXCEPT !.pc = "sleep"] ELSE NoTask]
    /\ cache = <<>>
    /\ now = 0
    /\ call = [c \in Callers |-> NoCall]

NextIndex ==
    \/ \E s \in Sessions, ids \in AnyIdLists : SessSubscribe(s, ids)
    \/ \E s \in Sessions, ids \in AnyIdLists : SessUnsubscribe(s, ids)
    \/ \E s \in Sessions : SessSendOk(s)

SpecIndex == InitIndex /\ [][NextIndex]_vars

\* ------------------------------------------------ a registry with a past
\* The registry lives as long as the process, and the dict keeps the holes of
\* the clients that have come and gone.  This specification starts where
\* NumSessions clients are connected in a dict that up to three earlier
\* clients have been deleted from, and the scheduler task they started has
\* not run yet; one more client may connect, and every client may leave.
Newcomer == NumSessions + 1

ChurnSessions == 1..Newcomer

\* The registry after `holes` earlier clients have connected and left and
\* then sessions 1..NumSessions have connected, session s as client s.
Churned(holes) ==
    [i \in 1..holes |-> Tomb] \o [s \in Sessions |-> [cid |-> s, ws |-> s]]

InitChurn ==
    /\ \E holes \in 0..(DictUsable - NumSessions) : active_connections = Churned(holes)
    /\ \E K \in SUBSET Assets : subscriptions = [a \in K |-> Sessions]
    /\ session = [s \in ChurnSessions |->
                    IF s \in Sessions THEN [pc |-> "recv", cid |-> s, out |-> NoMsg]
                    ELSE NoSession]
    /\ running = TRUE
    /\ price_update_task = 1
    /\ task = [t \in TaskIds |-> IF t = 1 THEN [NoTask EXCEPT !.pc = "new"] ELSE NoTask]
    /\ cache = <<>>
    /\ now = 0
    /\ call = [c \in Callers |-> NoCall]

NextChurn ==
    \/ \E t \in TaskIds : TaskStart(t)
    \/ \E t \in TaskIds : TaskCancelled(t)
    \/ \E t \in TaskIds, data \in Payloads : FetchDone(t, data)
    \/ \E t \in TaskIds : FetchFail(t)
    \/ \E t \in TaskIds : BsendOk(t)
    \/ \E t \in TaskIds : BsendFail(t)
    \/ \E t \in TaskIds : SsendOk(t)
    \/ \E t \in TaskIds : SsendFail(t)
    \/ \E t \in TaskIds : WakeSleep(t)
    \/ \E t \in TaskIds : WakeBackoff(t)
    \/ SessOpen(Newcomer, Newcomer)
    \/ \E s \in ChurnSessions : SessAccept(s)
    \/ \E s \in ChurnSessions : SessRecvError(s)

SpecChurn == InitChurn /\ [][NextChurn]_vars

\* --------------------------------------------- after the upstream recovers
\* The behaviours from the moment the upstream has recovered: every fetch
\* returns the well-formed listing and no send fails.  Sessions 1..NumSessions
\* stay connected; further clients keep connecting and leaving through the
\* handler slot Newcomer, which is free again once its handler has returned.
\* The event loop runs every task that is ready (asyncio runs ready callbacks
\* in FIFO order), hence the weak fairness of the scheduler task's steps;
\* nothing obliges a client to connect or to leave.
SessReopen(s) ==
    /\ session[s].pc = "done"
    /\ session' = [session EXCEPT ![s] = NoSession]
    /\ UNCHANGED <<active_connections, subscriptions, running, price_update_task,
                   task, cache, now, call>>

InitLive ==
    /\ active_connections = Churned(0)
    /\ \E K \in SUBSET Assets : subscriptions = [a \in K |-> Sessions]
    /\ session = [s \in ChurnSessions |->
                    IF s \in Sessions THEN [pc |-> "recv", cid |-> s, out |-> NoMsg]
                    ELSE NoSession]
    /\ running = TRUE
    /\ price_update_task = 1
    /\ \E pc \in {"new", "backoff"} :
          task = [t \in TaskIds |-> IF t = 1
                                    THEN [NoTask EXCEPT !.pc = pc, !.wait = WaitOf(pc)]
                                    ELSE NoTask]
    /\ cache = <<>>
    /\ now = 0
    /\ call = [c \in Callers |-> NoCall]

TaskNextLive ==
    \/ \E t \in TaskIds : TaskStart(t)
    \/ \E t \in TaskIds : FetchDone(t, Listing(NumAssets))
    \/ \E t \in TaskIds : BsendOk(t)
    \/ \E t \in TaskIds : SsendOk(t)
    \/ \E t \in TaskIds : WakeSleep(t)
    \/ \E t \in TaskIds : WakeBackoff(t)

NextLive ==
    \/ TaskNextLive
    \/ SessOpen(Newcomer, Newcomer)
    \/ SessAccept(Newcomer)
    \/ SessRecvError(Newcomer)
    \/ SessReopen(Newcomer)

SpecLive == InitLive /\ [][NextLive]_vars /\ WF_vars(TaskNextLive)

\* ================================================================ claims
Registered == DictKeys(active_connections)

\* The Broadcast Scheduler is Running: the flag is set and the task of
\* _price_update_task has neither finished nor had cancellation requested.
Running ==
    /\ running
    /\ price_update_task # 0
    /\ TaskAlive(task[price_update_task])
    /\ ~task[price_update_task].cancel

\* A task that can still start a tick or send a message.
Active(t) == TaskAlive(task[t]) /\ ~task[t].cancel

NumCreated == Cardinality({t \in TaskIds : task[t].pc # "none"})

\* Task t goes through the top of its loop into a tick.
StartsTick(t) ==
    /\ task[t].pc \in {"new", "sleep", "backoff"}
    /\ task'[t].pc \in {"fetch", "bsend", "ssend", "sleep", "backoff"}
    /\ task'[t].pc # task[t].pc

\* Task t hands a message to a transport in this step.
TaskSends(t) ==
    /\ task'[t].pc \in {"bsend", "ssend"}
    /\ task'[t].out # task[t].out

\* C1: between any two steps, the scheduler is Running if and only if the
\* connection registry is non-empty.
C1_RunningIffRegistered == Running <=> (Registered # {})

\* C1 witness: the scheduler was stopped and started again, with the
\* cancelled task still suspended.
C1_Witness ==
    /\ Running
    /\ \E t \in TaskIds : TaskAlive(task[t]) /\ task[t].cancel
    /\ \E s \in Sessions : session[s].pc = "done"

\* C2: at no time can more than one scheduler task still start a tick or
\* send a message.
C2_AtMostOneActive == Cardinality({t \in TaskIds : Active(t)}) <= 1

\* C2 witness: a stop was followed by a registration before the old task
\* resumed: two tasks exist that have not finished, one of them active.
C2_Witness ==
    /\ Cardinality({t \in TaskIds : TaskAlive(task[t])}) = 2
    /\ Cardinality({t \in TaskIds : Active(t)}) = 1

\* C3: a task is created only by a connect that finds the scheduler not
\* running, and that connect creates exactly one; whatever the order in
\* which concurrent connects return from accept, the connects after the first
\* create none.
C3_OneTaskPerStart ==
    [][NumCreated' = NumCreated
          + (IF (\E s \in Sessions : SessAccept(s)) /\ ~running THEN 1 ELSE 0)]_vars

\* C3 witness: two connects were suspended in accept at the same time, both
\* have registered, and one task exists.
C3_Witness ==
    /\ \A s \in Sessions : session[s].pc = "recv"
    /\ DictLen(active_connections) = NumSessions
    /\ NumCreated = 1

\* C4: a price_update or coin_update is handed to a transport only while
\* the registry is non-empty: none is sent between the removal of the last
\* connection and the next registration.
C4_NoBroadcastWhileEmpty ==
    [][\A t \in TaskIds : TaskSends(t) => DictLen(active_connections') > 0]_vars

\* C4 witness: the registry is empty again after a tick has sent messages
\* and the task has not resumed since.
C4_Witness ==
    /\ Registered = {}
    /\ \E t \in TaskIds : task[t].pc \in {"bsend", "ssend"} /\ task[t].cancel

\* The stop signal is latched in every task alive while the registry is empty.
Latched == (Registered = {}) => \A t \in TaskIds : TaskAlive(task[t]) => task[t].cancel

\* C5: once the registry has become empty, every task alive at that moment
\* has the stop signal latched, and a task with the signal latched never
\* starts a tick: its only step is to end, even if the running flag has
\* been set again by a new connection.
C5_StopNeverLost ==
    [][/\ Latched'
       /\ \A t \in TaskIds :
            task[t].cancel => /\ ~StartsTick(t)
                              /\ ~TaskSends(t)
                              /\ (task'[t] # task[t] => task'[t].pc = "done")]_vars

\* C5 witness: a task stopped in its backoff sleep is still suspended while
\* a new connection has set the running flag again.
C5_Witness ==
    /\ running
    /\ \E t \in TaskIds : task[t].pc = "backoff" /\ task[t].cancel

\* The clients whose send has failed in the broadcast (or subscriber
\* delivery) task t is in, the send that fails in this step included.
FailedIn(t) ==
    {task[t].disconnected[i] : i \in 1..Len(task[t].disconnected)}
        \cup (IF BsendFail(t) \/ SsendFail(t) THEN {task[t].out.cid} ELSE {})

\* After this step client c is in neither the registry nor any subscriber set.
GoneNext(c) ==
    /\ c \notin DictKeys(active_connections')
    /\ \A a \in DOMAIN subscriptions' : c \notin subscriptions'[a]

\* Task t, resumed from a send of broadcast, goes on as the loop of
\* broadcast prescribes: it attempts the next registered connection, or the
\* loop is over, broadcast evicts the failed clients and returns normally.
BroadcastGoesOn(t) ==
    LET i == NextEntry(active_connections, task[t].pos)
    IN  IF i # 0
        THEN /\ task'[t].pc = "bsend"
             /\ task'[t].out.to = active_connections[i].ws
             /\ {task'[t].disconnected[j] : j \in 1..Len(task'[t].disconnected)} = FailedIn(t)
        ELSE /\ task'[t].pc \in {"ssend", "sleep"}
             /\ \A c \in FailedIn(t) : GoneNext(c)

C7_MidTickChangeHarmless ==
    [][\A t \in TaskIds : (BsendOk(t) \/ BsendFail(t)) => BroadcastGoesOn(t)]_vars

\* C8 (as claimed): when the operation in which a send failed is over,
\* the client is in neither the registry nor any subscriber set.
C8_EvictedOnFirstFailure ==
    [][/\ \A s \in Sessions : SessSendFail(s) => GoneNext(session[s].cid)
       /\ \A t \in TaskIds :
            ((BsendOk(t) \/ BsendFail(t)) /\ task'[t].pc # "bsend")
                => \A c \in FailedIn(t) : GoneNext(c)
       /\ \A t \in TaskIds :
            ((SsendOk(t) \/ SsendFail(t))
                /\ ~(task'[t].pc = "ssend" /\ task'[t].ci = task[t].ci))
                => \A c \in FailedIn(t) : GoneNext(c)]_vars

HasNoSubscription(c) == \A a \in DOMAIN subscriptions : c \notin subscriptions[a]

C10_SubscribeThenMember ==
    [][\A s \in Sessions : \A ids \in IdLists :
          /\ SessSubscribe(s, ids) =>
                \A i \in 1..Len(ids) :
                    session[s].cid \in SubscribersOf(subscriptions', ids[i])
          /\ SessUnsubscribe(s, ids) =>
                \A i \in 1..Len(ids) :
                    session[s].cid \notin SubscribersOf(subscriptions', ids[i])]_vars

\* C10 witness: a subscribe has just put a client into a set that held
\* another client, and its acknowledgment is on its way.
C10_Witness ==
    \E s \in Sessions :
        /\ session[s].pc = "send"
        /\ session[s].out.type = "subscribed"
        /\ session[s].out.data # <<>>
        /\ session[s].cid \in SubscribersOf(subscriptions, session[s].out.data[1])
        /\ SubscribersOf(subscriptions, session[s].out.data[1]) # {session[s].cid}

\* C11: subscribe is idempotent: for every index, client and asset list
\* (lists with repeated ids included), the index after subscribe(c, L) is not
\* changed by a second subscribe(c, L).
C11_SubscribeIdempotent ==
    [][\A s \in Sessions : \A ids \in AnyIdLists :
          SessSubscribe(s, ids) =>
              Subscribe(subscriptions', session[s].cid, ids) = subscriptions']_vars

\* C11 witness: two sessions of the same client have each subscribed it
\* with the same list, one that repeats an id, and both acknowledgments are
\* on their way.
C11_Witness ==
    \E s1, s2 \in Sessions :
        /\ s1 # s2
        /\ session[s1].cid = session[s2].cid
        /\ session[s1].pc = "send" /\ session[s2].pc = "send"
        /\ session[s1].out.type = "subscribed" /\ session[s2].out.type = "subscribed"
        /\ Len(session[s1].out.data) = 2
        /\ session[s1].out.data[1] = session[s1].out.data[2]
        /\ session[s1].out.data = session[s2].out.data
        /\ session[s1].cid \in SubscribersOf(subscriptions, session[s1].out.data[1])

\* C12 (as claimed): every asset key of the subscription index maps to a
\* non-empty subscriber set.
C12_NoEmptySets == \A a \in DOMAIN subscriptions : subscriptions[a] # {}

\* The entry of key k can be served at time t: it exists and has not expired.
Fresh(k, t) == k \in DOMAIN cache /\ t < cache[k].expires_at

\* C13 (as claimed): when a caller reads the key of its previous successful
\* read again, whatever the payload stored (the empty list included): if the
\* entry of the key is within its TTL the read issues no Fetcher call and
\* returns the stored payload, and if the entry has expired the read issues
\* a second Fetcher call.
C13_RoundTrip ==
    [][\A c \in Callers : \A q \in Requests :
          (/\ CallRead(c, q)
           /\ call[c].reads >= 1
           /\ call[c].req = q
           /\ call[c].res.kind \in {"hit", "fetched"})
              => IF Fresh(KeyOf(q), now)
                 THEN /\ call'[c].pc = "idle"
                      /\ call'[c].fetched = call[c].fetched
                      /\ call'[c].res.data = cache[KeyOf(q)].data
                 ELSE /\ call'[c].pc = "http"
                      /\ call'[c].fetched = call[c].fetched + 1]_vars

\* C14: a read never returns the payload of an entry whose expiry is not
\* later than the current time: a read that returns from the cache returns
\* the payload of an entry that expires later than now, and a read that finds
\* the entry of its key expired goes to the Fetcher.
C14_ExpiredNeverServed ==
    [][\A c \in Callers : \A q \in Requests :
          CallRead(c, q) =>
              /\ call'[c].pc = "idle" =>
                    /\ KeyOf(q) \in DOMAIN cache
                    /\ now < cache[KeyOf(q)].expires_at
                    /\ call'[c].res.data = cache[KeyOf(q)].data
              /\ (KeyOf(q) \in DOMAIN cache /\ cache[KeyOf(q)].expires_at <= now)
                    => call'[c].pc = "http"]_vars

\* C14 witness: a caller is in the HTTP get of a read that found the entry
\* of its key at the very second of its expiry.
C14_Witness ==
    \E c \in Callers :
        /\ call[c].pc = "http"
        /\ KeyOf(call[c].req) \in DOMAIN cache
        /\ cache[KeyOf(call[c].req)].expires_at = now
        /\ cache[KeyOf(call[c].req)].data # <<>>

\* C15: when the Fetcher fails during a miss the call ends in an error, the
\* cache is left exactly as it was, and an expired entry of the key is served
\* neither to this caller nor by any lookup at this or a later time.
C15_FailedFetchWritesNothing ==
    [][\A c \in Callers :
          CallFail(c) =>
              /\ call'[c].res = [kind |-> "error", data |-> <<>>]
              /\ cache' = cache
              /\ ~Fresh(KeyOf(call[c].req), now) =>
                    \A t \in now..MaxNow :
                        GetFromCache(cache', KeyOf(call[c].req), t) = None]_vars

\* C15 witness: a read has failed while the cache holds an expired entry of
\* its key.
C15_Witness ==
    \E c \in Callers :
        /\ call[c].pc = "idle"
        /\ call[c].res.kind = "error"
        /\ KeyOf(call[c].req) \in DOMAIN cache
        /\ cache[KeyOf(call[c].req)].expires_at <= now
        /\ cache[KeyOf(call[c].req)].data # <<>>

\* C16: concurrent misses are not deduplicated: a read that finds its key
\* absent or expired issues its own Fetcher call whatever the other callers
\* are doing, the caller gets the payload of its own fetch, and that payload
\* replaces whatever entry the key has (the last writer's payload stays).
C16_LastWriteWins ==
    [][/\ \A c \in Callers : \A q \in Requests :
            (CallRead(c, q) /\ ~Fresh(KeyOf(q), now))
                => /\ call'[c].pc = "http"
                   /\ call'[c].fetched = call[c].fetched + 1
       /\ \A c \in Callers : \A data \in Answers :
            CallDone(c, data)
                => /\ call'[c].res = [kind |-> "fetched", data |-> data]
                   /\ cache'[KeyOf(call[c].req)].data = data]_vars

\* C16 witness: two callers missed the same key before either had stored:
\* one has stored its payload, which is still valid, and the other is still
\* in its own HTTP get.
C16_Witness ==
    \E c1, c2 \in Callers :
        /\ call[c1].pc = "http"
        /\ call[c2].pc = "idle"
        /\ call[c2].res.kind = "fetched"
        /\ call[c2].res.data # <<>>
        /\ call[c2].req = call[c1].req
        /\ Fresh(KeyOf(call[c1].req), now)
        /\ cache[KeyOf(call[c1].req)].data = call[c2].res.data

\* A listing every item of which has the keys the scheduler subscripts.
WellFormed(data) == \A i \in 1..Len(data) : data[i].complete

\* No task has handed a message to a transport in this step.
NothingSent == \A u \in TaskIds : task'[u].out = task[u].out \/ task'[u].out = NoMsg

\* C17: when the listing fetch of a tick fails, the tick sends no
\* price_update and no coin_update and the task is left alive in its backoff
\* sleep; the wake from that sleep does not end the task; and a later fetch
\* that returns a well-formed listing is followed, in the same step, by the
\* price_update of that listing to a registered connection.
C17_FailedTickSendsNothing ==
    [][\A t \in TaskIds :
          /\ FetchFail(t) => /\ task'[t].pc = "backoff"
                             /\ NothingSent
          /\ WakeBackoff(t) => task'[t].pc \in {"fetch", "bsend", "backoff"}
          /\ \A data \in Payloads :
                (FetchDone(t, data) /\ WellFormed(data))
                    => /\ task'[t].pc = "bsend"
                       /\ task'[t].out.type = "price_update"
                       /\ task'[t].out.data = PriceData(data)
                       /\ task'[t].out.cid \in DictKeys(active_connections')
                       /\ task'[t].out.to
                             = DictGet(active_connections', task'[t].out.cid)]_vars

\* C17 witness: a task sleeps in its backoff with connections registered
\* and no fetch has ever succeeded.
C17_Witness ==
    \E t \in TaskIds :
        /\ task[t].pc = "backoff"
        /\ ~task[t].cancel
        /\ cache = <<>>
        /\ DictLen(active_connections) = NumSessions

\* The iteration task t is suspended in raises when it resumes: the dict (or
\* the set) has changed size since the iteration began.
IterError(t) ==
    \/ /\ task[t].pc = "bsend"
       /\ DictLen(active_connections) # task[t].used
    \/ /\ task[t].pc = "ssend"
       /\ ~task[t].cancel
       /\ task[t].sused # Cardinality(IF task[t].sdead THEN {}
                                      ELSE SubscribersOf(subscriptions, IterAsset(task[t])))

\* Task t runs into an error in this step.
TaskErr(t) ==
    \/ FetchFail(t)
    \/ \E data \in Payloads : FetchDone(t, data) /\ ~WellFormed(data)
    \/ (BsendOk(t) \/ BsendFail(t) \/ SsendOk(t) \/ SsendFail(t)) /\ IterError(t)

\* C18: a task ends only with the stop signal latched.  An error inside a
\* tick (a failed fetch, a listing item without a field, an iteration that
\* raises) leaves the task in its backoff sleep, and a task that wakes from
\* a sleep without the stop signal goes into another tick.
C18_OnlyStopEndsLoop ==
    [][\A t \in TaskIds :
          /\ (task[t].pc # "done" /\ task'[t].pc = "done") => task[t].cancel
          /\ TaskErr(t) => task'[t].pc = "backoff"
          /\ (WakeBackoff(t) \/ WakeSleep(t))
                => task'[t].pc \in {"fetch", "bsend", "backoff"}]_vars

\* C18 witness: a task sleeps in its backoff although the listing in the
\* cache is good: an iteration of the tick has raised.
C18_Witness ==
    \E t \in TaskIds :
        /\ task[t].pc = "backoff"
        /\ ~task[t].cancel
        /\ ListingKey \in DOMAIN cache
        /\ cache[ListingKey].data = Listing(NumAssets)

\* C20: a coin_update for asset a is handed only to the transport of a
\* client that is, when it is handed over, registered with that transport
\* and among the subscribers of a.
C20_OnlyToSubscribers ==
    [][\A t \in TaskIds :
          (task'[t].pc = "ssend" /\ ~task'[t].cancel /\ task'[t].out # task[t].out)
              => /\ task'[t].out.type = "coin_update"
                 /\ task'[t].out.cid \in DictKeys(active_connections')
                 /\ task'[t].out.to = DictGet(active_connections', task'[t].out.cid)
                 /\ task'[t].out.cid
                       \in SubscribersOf(subscriptions', task'[t].out.data[1])]_vars

\* C20 witness: after a session has ended, a coin_update is on its way to
\* the only subscriber its asset has left.
C20_Witness ==
    \E t \in TaskIds :
        /\ task[t].pc = "ssend"
        /\ ~task[t].cancel
        /\ subscriptions[task[t].out.data[1]] = {task[t].out.cid}
        /\ \E s \in Sessions : session[s].pc = "done"

\* Websocket w is registered.
Connected(w) == \E i \in 1..Len(active_connections) : active_connections[i].ws = w

\* C19 (as claimed): when a tick goes on from its broadcast to its first
\* coin_update, the broadcast has attempted a send on every websocket that
\* was registered when it began and is still registered.
C19_GlobalBeforeDeltas ==
    [][\A t \in TaskIds :
          (task[t].pc = "bsend" /\ ~task[t].cancel /\ task'[t].pc = "ssend")
              => \A w \in task[t].start : Connected(w) => w \in task[t].tried]_vars

\* Task t leaves the tick it is in (to a sleep, or ending) in this step.
TickEnds(t) ==
    /\ task[t].pc \in {"bsend", "ssend"}
    /\ task'[t].pc \notin {"bsend", "ssend"}

\* Client c is registered before and after this step and no send of task t
\* to it has failed.
Steady(c, t) ==
    /\ c \in DictKeys(active_connections)
    /\ c \in DictKeys(active_connections')
    /\ c \notin FailedIn(t)

\* C21 (as claimed): in a tick whose listing was fetched, every client that
\* subscribed to an asset of the listing before the tick and has stayed
\* connected with a working transport has been sent the price_update by the
\* time the tick leaves its broadcast, and the coin_update of that asset by
\* the time the tick is left.
C21_SubscriberServed ==
    [][\A t \in TaskIds : \A c \in ChurnSessions : \A i \in 1..Len(task[t].cryptos) :
          (/\ TickEnds(t) \/ (task[t].pc = "bsend" /\ task'[t].pc = "ssend")
           /\ Steady(c, t)
           /\ c \in SubscribersOf(subscriptions', task[t].cryptos[i].id))
              => /\ task[t].pc = "bsend"
                    => DictGet(active_connections, c) \in task[t].tried
                 /\ TickEnds(t)
                    => <<DictGet(active_connections, c), task[t].cryptos[i].id>>
                           \in task[t].csent]_vars

\* Session s is live: its client id is registered with its own websocket.
Live(s) ==
    /\ session[s].pc \in {"recv", "send"}
    /\ ClientOf(s) \in DictKeys(active_connections)
    /\ DictGet(active_connections, ClientOf(s)) = s

IdsOf(crypto_ids) == {crypto_ids[i] : i \in 1..Len(crypto_ids)}

\* After this step session s is in the send of one message of the given
\* type and list to its own websocket, and no other session has moved.
Acked(s, type, crypto_ids) ==
    /\ session'[s] = [pc |-> "send", cid |-> ClientOf(s),
                      out |-> [type |-> type, to |-> s, cid |-> ClientOf(s),
                               data |-> crypto_ids]]
    /\ \A u \in Sessions \ {s} : session'[u] = session[u]

\* C22: a subscribe (unsubscribe) message received on a live session adds
\* the client to (removes it from) the subscribers of exactly the listed
\* assets, and the session sends one subscribed (unsubscribed) message with
\* the list of the request (the empty list when the field is missing) to its
\* own websocket; when that send is over the session is back in its receive
\* with nothing more to send.
C22_AckEchoesRequest ==
    [][\A s \in Sessions :
          /\ \A crypto_ids \in IdLists :
                Live(s) =>
                  /\ SessSubscribe(s, crypto_ids) =>
                        /\ \A a \in Assets :
                              SubscribersOf(subscriptions', a) =
                                 IF a \in IdsOf(crypto_ids)
                                 THEN SubscribersOf(subscriptions, a) \cup {ClientOf(s)}
                                 ELSE SubscribersOf(subscriptions, a)
                        /\ Acked(s, "subscribed", crypto_ids)
                  /\ SessUnsubscribe(s, crypto_ids) =>
                        /\ \A a \in Assets :
                              SubscribersOf(subscriptions', a) =
                                 IF a \in IdsOf(crypto_ids)
                                 THEN SubscribersOf(subscriptions, a) \ {ClientOf(s)}
                                 ELSE SubscribersOf(subscriptions, a)
                        /\ Acked(s, "unsubscribed", crypto_ids)
          /\ (session[s].pc = "send" /\ session'[s] # session[s])
                => session'[s] = [pc |-> "recv", cid |-> ClientOf(s), out |-> NoMsg]]_vars

\* A subscribed and an unsubscribed acknowledgment of a listed asset are in
\* flight to two live sessions, and the index shows the first request only.
C22_Witness ==
    \E s, u \in Sessions : \E a \in Assets :
        /\ Live(s) /\ Live(u)
        /\ session[s].out.type = "subscribed" /\ session[s].out.data = <<a>>
        /\ session[u].out.type = "unsubscribed" /\ session[u].out.data = <<a>>
        /\ SubscribersOf(subscriptions, a) = {ClientOf(s)}

\* C23: a ping received on a live session makes the session send one pong
\* to its own websocket and changes neither the registry nor the
\* subscription index; when the send of the pong has returned the session is
\* back in its receive with nothing more to send.
C23_PingGetsOnePong ==
    [][\A s \in Sessions :
          /\ (Live(s) /\ SessPing(s)) =>
                /\ Acked(s, "pong", <<>>)
                /\ active_connections' = active_connections
                /\ subscriptions' = subscriptions
          /\ (session[s].out.type = "pong" /\ SessSendOk(s)) =>
                /\ session'[s].pc = "recv" /\ session'[s].out = NoMsg
                /\ active_connections' = active_connections
                /\ subscriptions' = subscriptions]_vars

\* A live session with a subscription is in the send of its pong.
C23_Witness ==
    \E s \in Sessions :
        /\ Live(s)
        /\ session[s].pc = "send" /\ session[s].out.type = "pong"
        /\ session[s].out.to = s
        /\ ~HasNoSubscription(ClientOf(s))

\* C24: the handling of a message whose action is none of subscribe,
\* unsubscribe and ping (or is missing) sends nothing, leaves the registry,
\* the subscription index and the scheduler as they were, and leaves the
\* session in its receive.
C24_UnknownActionIgnored ==
    [][\A s \in Sessions :
          SessUnknown(s) =>
              /\ session'[s].pc = "recv" /\ session'[s].out = NoMsg
              /\ \A u \in Sessions : session'[u] = session[u]
              /\ UNCHANGED <<active_connections, subscriptions, running,
                             price_update_task, task>>]_vars

\* A live session with a subscription, the scheduler running in a send, is
\* in its receive, where such a message is read.
C24_Witness ==
    \E s \in Sessions :
        /\ Live(s) /\ session[s].pc = "recv" /\ session[s].out = NoMsg
        /\ ~HasNoSubscription(ClientOf(s))
        /\ Running /\ task[price_update_task].pc = "ssend"

\* C25: the step in which a session's receive raises (the transport is
\* closed, or the frame cannot be decoded) ends the session's handler and
\* leaves its client id in neither the registry nor any subscriber set; if
\* the registry is then empty the running flag is cleared and every task
\* still alive has the stop signal latched.
C25_LoopEndCleansUp ==
    [][\A s \in Sessions :
          SessRecvError(s) =>
              /\ session'[s].pc = "done"
              /\ GoneNext(ClientOf(s))
              /\ DictKeys(active_connections') = {}
                    => /\ ~running'
                       /\ \A t \in TaskIds : TaskAlive(task'[t]) => task'[t].cancel]_vars

\* The sessions have ended while the scheduler was in a coin_update send:
\* the registry holds deleted entries only, the index has no subscriber
\* left and the task is stopped but has not yet ended.
C25_Witness ==
    /\ \A s \in Sessions : session[s].pc = "done"
    /\ Len(active_connections) = NumSessions /\ DictKeys(active_connections) = {}
    /\ \A a \in Assets : SubscribersOf(subscriptions, a) = {}
    /\ ~running
    /\ \E t \in TaskIds : task[t].pc = "ssend" /\ task[t].cancel

\* The client id of session s is not in the registry.
Unregistered(s) ==
    /\ session[s].pc \in {"recv", "send"}
    /\ ClientOf(s) \notin DictKeys(active_connections)

\* C26: with the client id of a session not (or no longer) registered,
\* send_personal_message (the reply to a subscribe, unsubscribe or ping)
\* sends nothing and leaves the session, the registry and the scheduler as
\* they were, and disconnect (after a failed receive or send) leaves the
\* registry, the subscriptions of every other client and the scheduler's
\* Running state as they were.
C26_UnknownIdIsNoOp ==
    [][\A s \in Sessions :
          Unregistered(s) =>
              /\ (/\ task' = task
                  /\ \/ SessPing(s)
                     \/ \E crypto_ids \in IdLists : SessSubscribe(s, crypto_ids)
                     \/ \E crypto_ids \in IdLists : SessUnsubscribe(s, crypto_ids))
                    => /\ session' = session
                       /\ UNCHANGED <<active_connections, running, price_update_task>>
              /\ (/\ session'[s].pc # session[s].pc
                  /\ SessRecvError(s) \/ SessSendFail(s))
                    => /\ active_connections' = active_connections
                       /\ \A a \in Assets :
                             SubscribersOf(subscriptions', a) \ {ClientOf(s)}
                                = SubscribersOf(subscriptions, a) \ {ClientOf(s)}
                       /\ Running' = Running
                       /\ running' = running
                       /\ \A t \in TaskIds : /\ task'[t].pc = task[t].pc
                                             /\ task'[t].cancel = task[t].cancel]_vars

\* A session is in the send of an acknowledgment and its client id has been
\* evicted meanwhile, while another client is registered and subscribed and
\* the scheduler runs.
C26_Witness ==
    \E s \in Sessions :
        /\ Unregistered(s) /\ session[s].pc = "send"
        /\ Registered # {}
        /\ \E a \in Assets : SubscribersOf(subscriptions, a) \ {ClientOf(s)} # {}
        /\ Running

\* The types of the messages of the scheduler and of the session handler.
TaskTypes == {"price_update", "coin_update"}

ReplyTypes == {"subscribed", "unsubscribed", "pong"}

\* C27: every message handed to a transport is a price_update or a
\* coin_update (from the scheduler) or a subscribed, unsubscribed or pong
\* reply (from a session handler); a task that is in its backoff after an
\* error, and a session that has ended, have no message to send.
C27_NoErrorMessage ==
    /\ \A t \in TaskIds :
          /\ task[t].out # NoMsg => task[t].out.type \in TaskTypes
          /\ task[t].pc \in {"bsend", "ssend"} => task[t].out.type \in TaskTypes
          /\ task[t].pc \in {"backoff", "fetch", "sleep"} => task[t].out = NoMsg
    /\ \A s \in DOMAIN session :
          /\ session[s].out # NoMsg => session[s].out.type \in ReplyTypes
          /\ session[s].pc = "send" => session[s].out.type \in ReplyTypes
          /\ session[s].pc # "send" => session[s].out = NoMsg

\* After a failed send has evicted a client whose acknowledgment is in
\* flight, the other session's pong and the scheduler's coin_update are in
\* flight too.
C27_Witness ==
    \E s, u \in Sessions : \E t \in TaskIds :
        /\ Unregistered(s) /\ session[s].out.type = "subscribed"
        /\ Live(u) /\ session[u].out.type = "pong"
        /\ task[t].pc = "ssend" /\ task[t].out.type = "coin_update"
        /\ task[t].out.to = u

\* C28 (as claimed): once every fetch returns a well-formed listing, with
\* the registry never empty and the scheduler task scheduled fairly, a
\* price_update is eventually sent to each connection that stays registered
\* with a working transport.
C28_RecoveryReachesAll ==
    \A s \in Sessions :
        <>(\E t \in TaskIds : /\ task[t].pc = "bsend"
                              /\ task[t].out.type = "price_update"
                              /\ task[t].out.to = s)

\* The time to live the claim gives the entry of read q.
ClaimedTtl(q) ==
    CASE q.op = "history" -> IF q.days \in {<<"1">>, <<"7">>} THEN 60 ELSE 300
      [] q.op = "search" -> 600
      [] q.op = "trending" -> 300
      [] OTHER -> CACHE_TTL_SECONDS

\* C29: the entry stored when a fetch returns holds the fetched payload and
\* expires the method's time to live after the moment of the store: 60 s for
\* a history of 1 or 7 days and 300 s for another history, 600 s for a
\* search, 300 s for trending, and the configured default for the market
\* listing, an asset's detail and the global stats.
C29_TtlPerOperation ==
    [][\A c \in Callers : \A data \in Answers :
          CallDone(c, data) =>
              /\ KeyOf(call[c].req) \in DOMAIN cache'
              /\ cache'[KeyOf(call[c].req)] =
                    [data |-> data, expires_at |-> now + ClaimedTtl(call[c].req)]]_vars

\* The entry of a search stored at second 0 and that of a 7-day history
\* stored at second 60 are in the cache together, each with its own expiry.
C29_Witness ==
    /\ now = 60
    /\ call[1].pc = "idle" /\ call[1].res.kind = "fetched"
    /\ SearchKey(<<"B", "T", "c">>) = <<"search", "_", "b", "t", "c">>
    /\ SearchKey(<<"B", "T", "c">>) \in DOMAIN cache
    /\ cache[SearchKey(<<"B", "T", "c">>)].expires_at = 600
    /\ HistoryKey(<<"bitcoin">>, <<"usd">>, <<"7">>) \in DOMAIN cache
    /\ cache[HistoryKey(<<"bitcoin">>, <<"usd">>, <<"7">>)].expires_at = 120

\* Task t, not in a tick, is put in a tick by this step.
EntersTick(t) ==
    /\ task[t].pc \notin {"fetch", "bsend", "ssend"}
    /\ task'[t].pc \in {"fetch", "bsend", "ssend"}

\* C30: a step in which a tick runs into an error leaves the task in a
\* sleep of 5 s; a step in which a tick ends without an error (and without
\* the stop signal) leaves it in a sleep of 10 s; and a task enters a tick
\* only when created or from one of these two sleeps.
C30_WaitBetweenTicks ==
    [][\A t \in TaskIds :
          /\ (task'[t] # task[t] /\ TaskErr(t))
                => task'[t].pc = "backoff" /\ task'[t].wait = 5
          /\ (TickEnds(t) /\ ~task[t].cancel /\ ~TaskErr(t))
                => task'[t].pc = "sleep" /\ task'[t].wait = 10
          /\ EntersTick(t)
                => \/ task[t].pc = "new"
                   \/ task[t].pc = "sleep" /\ task[t].wait = 10
                   \/ task[t].pc = "backoff" /\ task[t].wait = 5
          /\ task'[t].pc \in {"sleep", "backoff"} => task'[t].wait \in {5, 10}]_vars

\* One task is in the sleep after a tick that went well while an earlier
\* one, stopped, is still in the sleep of its error handler.
C30_Witness ==
    \E t, u \in TaskIds :
        /\ task[t].pc = "sleep" /\ task[t].wait = 10 /\ ~task[t].cancel
        /\ task[u].pc = "backoff" /\ task[u].wait = 5 /\ task[u].cancel
        /\ Registered # {}

\* C31 (as claimed): whatever sessions did while the delivery to an asset's
\* subscribers was suspended in a send, the resumed task goes on with the
\* tick: it is in the send to another subscriber or of a later asset, or it
\* has ended the tick in its normal sleep.
C31_MidDeliveryChangeHarmless ==
    [][\A t \in TaskIds :
          (task[t].pc = "ssend" /\ ~task[t].cancel /\ (SsendOk(t) \/ SsendFail(t)))
              => task'[t].pc \in {"ssend", "sleep"}]_vars

\* C32: the price_update a tick hands to a transport has one entry per item
\* of the listing the tick got (the one the cache holds), in the listing's
\* order, each with the item's id and the keys id, symbol, name,
\* current_price, price_change_24h and market_cap; and every further send of
\* the tick's broadcast hands over the same data.
C32_PriceUpdateMirrorsListing ==
    [][\A t \in TaskIds :
          (task'[t].pc = "bsend" /\ ~task'[t].cancel /\ task'[t].out # task[t].out)
              => LET listing == cache'[ListingKey].data
                     d == task'[t].out.data
                 IN  /\ task'[t].out.type = "price_update"
                     /\ Len(d) = Len(listing)
                     /\ \A i \in 1..Len(d) :
                           /\ d[i].id = listing[i].id
                           /\ d[i].keys = {"id", "symbol", "name", "current_price",
                                           "price_change_24h", "market_cap"}
                     /\ task[t].pc = "bsend" => d = task[t].out.data]_vars

\* The price_update of a listing of NumAssets assets has gone to one
\* connection and is in the send to a second one.
C32_Witness ==
    \E t \in TaskIds :
        /\ task[t].pc = "bsend" /\ ~task[t].cancel
        /\ Len(task[t].out.data) = NumAssets
        /\ task[t].out.data[NumAssets].id = NumAssets
        /\ Cardinality(task[t].tried) = 2

\* C33 (as claimed): every client id in the subscriber set of an asset is
\* in the registry.
C33_SubscribersRegistered ==
    \A a \in DOMAIN subscriptions : subscriptions[a] \subseteq Registered

\* Session s, registered with its own websocket, stays in its loop and is
\* no longer so registered after this step.
LosesRegistration(s) ==
    /\ Live(s)
    /\ session'[s].pc \in {"recv", "send"}
    /\ ~Live(s)'

\* C34 (as claimed): a session in its loop loses the registration of its
\* client id with its own websocket only in a step in which a send of a
\* session fails or in which the scheduler ends a broadcast or a delivery
\* in which a send to its client id failed.
C34_OnlyOwnEndUnregisters ==
    [][\A s \in Sessions :
          LosesRegistration(s)
              => \/ \E u \in Sessions : session[u].pc = "send" /\ SessSendFail(u)
                 \/ \E t \in TaskIds : task'[t] # task[t] /\ ClientOf(s) \in FailedIn(t)]_vars

\* Client d is in this step what it was: registered or not, with the same
\* websocket, and a subscriber of the same assets.
Untouched(d) ==
    /\ d \in DictKeys(active_connections') <=> d \in DictKeys(active_connections)
    /\ d \in DictKeys(active_connections)
          => DictGet(active_connections', d) = DictGet(active_connections, d)
    /\ \A a \in Assets :
          d \in SubscribersOf(subscriptions', a) <=> d \in SubscribersOf(subscriptions, a)

\* C35: the disconnect(c) a session's handler calls (after a failed receive
\* or a failed send of a reply) leaves every client id other than c
\* registered or not as it was, with the websocket it had, and a subscriber
\* of exactly the assets it was a subscriber of.
C35_DisconnectFrame ==
    [][\A s \in Sessions :
          (session'[s].pc # session[s].pc /\ (SessRecvError(s) \/ SessSendFail(s)))
              => \A d \in ClientIds \ {ClientOf(s)} : Untouched(d)]_vars

\* A session's handler has returned after its disconnect and a client that
\* shared no id with it is registered and subscribed to every asset, next
\* to the hole the disconnect left in the registry.
C35_Witness ==
    \E s \in Sessions : \E d \in ClientIds :
        /\ session[s].pc = "done"
        /\ \E i \in 1..Len(active_connections) : active_connections[i] = Tomb
        /\ d \in Registered
        /\ \A a \in Assets : d \in SubscribersOf(subscriptions, a)
        /\ Running

\* C36: the handling of a subscribe or unsubscribe message of client c with
\* list L leaves the registry and the scheduler as they were, every other
\* client a subscriber of exactly the assets it was a subscriber of, and c
\* one of exactly the assets outside L it was one of.
C36_SubscribeFrame ==
    [][\A s \in Sessions : \A crypto_ids \in AnyIdLists :
          (SessSubscribe(s, crypto_ids) \/ SessUnsubscribe(s, crypto_ids))
              => /\ UNCHANGED <<active_connections, running, price_update_task, task>>
                 /\ \A a \in Assets : \A d \in ClientIds :
                       (d # ClientOf(s) \/ a \notin IdsOf(crypto_ids))
                           => (d \in SubscribersOf(subscriptions', a)
                                  <=> d \in SubscribersOf(subscriptions, a))]_vars

\* An unsubscribe of a two-id list that repeats one asset is acknowledged
\* while another client is still a subscriber of that asset and the client
\* itself still one of the other asset.
C36_Witness ==
    \E s \in Sessions : \E a, b \in Assets : \E d \in ClientIds :
        /\ a # b /\ d # ClientOf(s)
        /\ session[s].pc = "send" /\ session[s].out.type = "unsubscribed"
        /\ session[s].out.data = <<a, a>>
        /\ SubscribersOf(subscriptions, a) = {d}
        /\ ClientOf(s) \in SubscribersOf(subscriptions, b)

\* C37: a read for key k leaves the entry of every other key as it was;
\* the step in which the read hits or starts its fetch, and the step in
\* which the fetch fails, leave the whole cache as it was; the step in which
\* the fetch returns a payload makes the entry of k that payload with a new
\* expiry and nothing else.
C37_ReadWritesOwnKeyOnly ==
    [][\A c \in Callers :
          /\ \A q \in Requests : CallRead(c, q) => cache' = cache
          /\ CallFail(c) => cache' = cache
          /\ \A data \in Answers :
                CallDone(c, data) =>
                    LET k == KeyOf(call[c].req)
                    IN  /\ DOMAIN cache' = DOMAIN cache \cup {k}
                        /\ \A j \in DOMAIN cache \ {k} : cache'[j] = cache[j]
                        /\ DOMAIN cache'[k] = {"data", "expires_at"}
                        /\ cache'[k].data = data
                        /\ cache'[k].expires_at > now]_vars

\* The listing read has just stored a fresh entry while the entry of the
\* history, stored earlier, is expired and still in the cache.
C37_Witness ==
    \E c \in Callers :
        /\ call[c].pc = "idle" /\ call[c].res.kind = "fetched"
        /\ call[c].req.op = "cryptos"
        /\ KeyOf(call[c].req) \in DOMAIN cache
        /\ cache[KeyOf(call[c].req)].expires_at = now + CACHE_TTL_SECONDS
        /\ \E j \in DOMAIN cache : j # KeyOf(call[c].req) /\ cache[j].expires_at <= now

\* Two reads are the same read: the same method with the same parameters,
\* the query of a search taken in lower case.
SameRead(q1, q2) ==
    \/ q1 = q2
    \/ q1.op = "search" /\ q2.op = "search" /\ Lower(q1.query) = Lower(q2.query)

\* C38 (as claimed): a read is answered from the cache only with the entry
\* a read of the same method with the same parameters has stored.
C38_KeysInjective ==
    [][\A q \in KeyedRequests :
          (call[1].res.kind = "fetched" /\ CallRead(1, q) /\ call'[1].res.kind = "hit")
              => SameRead(q, call[1].req)]_vars

====
